---- MODULE Spec2Model ----
(***************************************************************************)
(* Model of pulsar's TesterPy.py: the duck-typed TesterPy.test and         *)
(* TesterPy.test_value methods, which forward one outcome to the recorder  *)
(* they inherit from TesterBase, and the free functions py_test_function   *)
(* and py_test_bool_function, which turn a raised error into a 0 result.   *)
(*                                                                         *)
(* Python values are records [type, num, str].  Floats are counted in      *)
(* units of 1/Scale, every other number in units of 1.  The result of      *)
(* evaluating an expression is a record [kind, value, exc]: kind "return"  *)
(* with the value, or kind "raise" with the exception.                     *)
(***************************************************************************)
EXTENDS Integers, Sequences, FiniteSets, TLC

VARIABLES recorder, debug_sink, call, ret, descs, ncalls, old

vars == <<recorder, debug_sink, call, ret, descs, ncalls, old>>

\* Number of calls made by the harness in one run.
MaxCalls == 2

\* Denominator of the fixed-point representation of float.
Scale == 10000

----------------------------------------------------------------------------
(* Python values *)

PyValue(t, n, s) == [type |-> t, num |-> n, str |-> s]

PyNone == PyValue("NoneType", 0, "")

PyInt(n) == PyValue("int", n, "")

PyBool(b) == PyValue("bool", IF b THEN 1 ELSE 0, "")

PyFloat(n) == PyValue("float", n, "")

PyStr(s) == PyValue("str", 0, s)

\* An object whose __eq__ raises the exception class named cls.
EqRaiser(cls) == PyValue("EqRaiser", 0, cls)

NumericTypes == {"int", "float", "bool"}

\* bool(v)
Truthy(v) ==
    CASE v.type \in NumericTypes -> v.num # 0
      [] v.type = "str" -> v.str # ""
      [] v.type = "NoneType" -> FALSE
      [] OTHER -> TRUE

----------------------------------------------------------------------------
(* Exceptions *)

\* The base class of each exception class ("" above BaseException).
ExcBase ==
    [c \in {"BaseException", "Exception", "SystemExit", "KeyboardInterrupt",
            "ArithmeticError", "ZeroDivisionError", "TypeError", "ValueError",
            "NameError"} |->
        CASE c = "BaseException" -> ""
          [] c \in {"Exception", "SystemExit", "KeyboardInterrupt"} -> "BaseException"
          [] c = "ZeroDivisionError" -> "ArithmeticError"
          [] OTHER -> "Exception"]

RECURSIVE IsSubclass(_, _)
IsSubclass(c, base) ==
    IF c = base THEN TRUE
    ELSE IF c = "" THEN FALSE
    ELSE IsSubclass(ExcBase[c], base)

PyExc(cls, msg) == [cls |-> cls, msg |-> msg]

NoExc == PyExc("", "")

\* isinstance(e, Exception): what "except Exception" matches.
IsException(e) == IsSubclass(e.cls, "Exception")

Return(v) == [kind |-> "return", value |-> v, exc |-> NoExc]

Raise(e) == [kind |-> "raise", value |-> PyNone, exc |-> e]

----------------------------------------------------------------------------
(* Operators of the language used by the module *)

NumScaled(v) == IF v.type = "float" THEN v.num ELSE v.num * Scale

\* a == b
PyEq(a, b) ==
    IF a.type = "EqRaiser" THEN Raise(PyExc(a.str, "cannot compare"))
    ELSE IF b.type = "EqRaiser" THEN Raise(PyExc(b.str, "cannot compare"))
    ELSE IF a.type \in NumericTypes /\ b.type \in NumericTypes
        THEN Return(PyBool(NumScaled(a) = NumScaled(b)))
    ELSE IF a.type = "str" /\ b.type = "str" THEN Return(PyBool(a.str = b.str))
    ELSE Return(PyBool(a.type = "NoneType" /\ b.type = "NoneType"))

\* a or b, written where the source has "and"
PyAnd_as_or(a, b) == IF Truthy(a) THEN a ELSE b

\* a and b, both already evaluated
PyAnd(a, b) == IF Truthy(a) THEN b ELSE a

\* not a
PyNot(a) == PyBool(~Truthy(a))

\* str(e)
PyStrOf(e) == e.msg

----------------------------------------------------------------------------
\* The callables handed to the module, and the call of func on args

Funcs == {"const42", "identity", "recip", "sys_exit"}

Call(func, args) ==
    CASE func = "const42" ->
            IF Len(args) = 0 THEN Return(PyInt(42))
            ELSE Raise(PyExc("TypeError", "takes 0 positional arguments"))
      [] func = "identity" ->
            IF Len(args) = 1 THEN Return(args[1])
            ELSE Raise(PyExc("TypeError", "missing 1 required positional argument"))
      [] func = "recip" ->
            IF Len(args) # 1
                THEN Raise(PyExc("TypeError", "missing 1 required positional argument"))
            ELSE IF args[1].type \notin NumericTypes
                THEN Raise(PyExc("TypeError", "unsupported operand type(s) for /"))
            ELSE IF NumScaled(args[1]) = 0
                THEN Raise(PyExc("ZeroDivisionError", "division by zero"))
            ELSE Return(PyFloat((Scale * Scale) \div NumScaled(args[1])))
      [] func = "sys_exit" ->
            IF Len(args) = 0 THEN Raise(PyExc("SystemExit", ""))
            ELSE Raise(PyExc("TypeError", "takes 0 positional arguments"))

----------------------------------------------------------------------------
\* class TesterPy(TesterBase)

\* What the recorder receives: one entry per call of test_bool or test_float.
RecorderCall(method, desc, args) == [method |-> method, desc |-> desc, args |-> args]

\* The try statement of test: the value bound to success, or the error that
\* leaves the statement.
test_success(should_pass, expected, func, args) ==
    LET r == Call(func, args)
        eq == IF r.kind = "raise" THEN r ELSE PyEq(expected, r.value)
    IN  IF eq.kind = "return" THEN Return(PyAnd(eq.value, PyBool(should_pass)))
        ELSE IF IsException(eq.exc) THEN Return(PyNot(PyBool(should_pass)))
        ELSE Raise(eq.exc)

\* TesterPy.test: the recorder after the call and what the caller gets.
test(rec, desc, should_pass, expected, func, args) ==
    LET s == test_success(should_pass, expected, func, args)
    IN  IF s.kind = "raise" THEN [recorder |-> rec, ret |-> s]
        ELSE [recorder |-> Append(rec, RecorderCall("test_bool", desc, <<s.value>>)),
              ret |-> Return(PyNone)]

\* The default of test_value's parameter tol, 0.0001.
DefaultTol == PyFloat(Scale \div 10000)

\* test_value sending a pair to test_float as soon as one of the two is a float
test_value_either_float(rec, desc, v1, v2, tolArg) ==
    LET tol == IF tolArg = <<>> THEN DefaultTol ELSE tolArg[1]
    IN  IF v1.type = "float" \/ v2.type = "float"
            THEN [recorder |-> Append(rec, RecorderCall("test_float", desc, <<v1, v2, tol>>)),
                  ret |-> Return(PyNone)]
        ELSE [recorder |-> Append(rec, RecorderCall("test_bool", desc, <<PyEq(v1, v2).value>>)),
              ret |-> Return(PyNone)]

\* TesterPy.test_value; tolArg is <<>> when the caller omits tol.
test_value(rec, desc, v1, v2, tolArg) ==
    LET tol == IF tolArg = <<>> THEN DefaultTol ELSE tolArg[1]
    IN  IF v1.type = "float" /\ v2.type = "float"
            THEN [recorder |-> Append(rec, RecorderCall("test_float", desc, <<v1, v2, tol>>)),
                  ret |-> Return(PyNone)]
        ELSE LET eq == PyEq(v1, v2)
             IN  IF eq.kind = "raise" THEN [recorder |-> rec, ret |-> eq]
                 ELSE [recorder |-> Append(rec, RecorderCall("test_bool", desc, <<eq.value>>)),
                       ret |-> Return(PyNone)]

----------------------------------------------------------------------------
\* The free functions

\* The names the module binds at import.
ModuleGlobals == {"TesterBase", "TesterPy", "py_test_function", "py_test_bool_function"}

\* The statement psr.print_global_debug(str(e) + "\n") followed by return 0:
\* the name psr is looked up first, in the module's globals.
print_and_return_0(sink, e) ==
    IF "psr" \in ModuleGlobals
        THEN [debug_sink |-> Append(sink, PyStrOf(e) \o "\n"), ret |-> Return(PyInt(0))]
    ELSE [debug_sink |-> sink,
          ret |-> Raise(PyExc("NameError", "name 'psr' is not defined"))]

\* The except clauses without the bare one
except_clauses_no_bare(sink, e) ==
    IF IsException(e) THEN print_and_return_0(sink, e)
    ELSE [debug_sink |-> sink, ret |-> Raise(e)]

\* The two except clauses shared by both functions.
except_clauses(sink, e) ==
    IF IsException(e) THEN print_and_return_0(sink, e)
    ELSE [debug_sink |-> sink, ret |-> Return(PyInt(0))]

\* py_test_function handing back what func returned
py_test_function_returns_value(sink, func, args) ==
    LET r == Call(func, args)
    IN  IF r.kind = "raise" THEN except_clauses(sink, r.exc)
        ELSE [debug_sink |-> sink, ret |-> Return(r.value)]

py_test_function(sink, func, args) ==
    LET r == Call(func, args)
    IN  IF r.kind = "raise" THEN except_clauses(sink, r.exc)
        ELSE [debug_sink |-> sink, ret |-> Return(PyInt(1))]

py_test_bool_function(sink, func, args) ==
    LET r == Call(func, args)
    IN  IF r.kind = "raise" THEN except_clauses(sink, r.exc)
        ELSE [debug_sink |-> sink, ret |-> Return(r.value)]

----------------------------------------------------------------------------
\* The harness: inputs and calls

Descs == {"d1", "d2"}

Expecteds == {PyInt(42), PyFloat(Scale), EqRaiser("ValueError"),
              EqRaiser("KeyboardInterrupt")}

ArgLists == {<<>>, <<PyInt(0)>>, <<PyInt(1)>>, <<PyNone>>}

\* Values whose comparison is total, as test_value requires.
Values == {PyFloat(Scale), PyFloat(Scale + 1), PyInt(1), PyStr("a"), PyStr("b")}

TolArgs == {<<>>, <<PyFloat(Scale \div 1000)>>}

Invocation(op, desc, should_pass, expected, func, args, v1, v2, tolArg) ==
    [op |-> op, desc |-> desc, should_pass |-> should_pass, expected |-> expected,
     func |-> func, args |-> args, v1 |-> v1, v2 |-> v2, tolArg |-> tolArg]

Init ==
    /\ recorder = <<>>
    /\ debug_sink = <<>>
    /\ call = Invocation("none", "", FALSE, PyNone, "", <<>>, PyNone, PyNone, <<>>)
    /\ ret = Return(PyNone)
    /\ descs = <<>>
    /\ ncalls = 0
    /\ old = [recorder |-> <<>>, debug_sink |-> <<>>]

CallTest ==
    /\ ncalls < MaxCalls
    /\ \E desc \in Descs, should_pass \in BOOLEAN, expected \in Expecteds,
          func \in Funcs, args \in ArgLists :
        LET out == test(recorder, desc, should_pass, expected, func, args)
        IN  /\ recorder' = out.recorder
            /\ ret' = out.ret
            /\ call' = Invocation("test", desc, should_pass, expected, func, args,
                                  PyNone, PyNone, <<>>)
            /\ descs' = Append(descs, desc)
    /\ ncalls' = ncalls + 1
    /\ old' = [recorder |-> recorder, debug_sink |-> debug_sink]
    /\ UNCHANGED debug_sink

CallTestValue ==
    /\ ncalls < MaxCalls
    /\ \E desc \in Descs, v1 \in Values, v2 \in Values, tolArg \in TolArgs :
        LET out == test_value(recorder, desc, v1, v2, tolArg)
        IN  /\ recorder' = out.recorder
            /\ ret' = out.ret
            /\ call' = Invocation("test_value", desc, FALSE, PyNone, "", <<>>,
                                  v1, v2, tolArg)
            /\ descs' = Append(descs, desc)
    /\ ncalls' = ncalls + 1
    /\ old' = [recorder |-> recorder, debug_sink |-> debug_sink]
    /\ UNCHANGED debug_sink

CallPyTestFunction ==
    /\ ncalls < MaxCalls
    /\ \E func \in Funcs, args \in ArgLists :
        LET out == py_test_function(debug_sink, func, args)
        IN  /\ debug_sink' = out.debug_sink
            /\ ret' = out.ret
            /\ call' = Invocation("py_test_function", "", FALSE, PyNone, func, args,
                                  PyNone, PyNone, <<>>)
    /\ ncalls' = ncalls + 1
    /\ old' = [recorder |-> recorder, debug_sink |-> debug_sink]
    /\ UNCHANGED <<recorder, descs>>

CallPyTestBoolFunction ==
    /\ ncalls < MaxCalls
    /\ \E func \in Funcs, args \in ArgLists :
        LET out == py_test_bool_function(debug_sink, func, args)
        IN  /\ debug_sink' = out.debug_sink
            /\ ret' = out.ret
            /\ call' = Invocation("py_test_bool_function", "", FALSE, PyNone, func,
                                  args, PyNone, PyNone, <<>>)
    /\ ncalls' = ncalls + 1
    /\ old' = [recorder |-> recorder, debug_sink |-> debug_sink]
    /\ UNCHANGED <<recorder, descs>>

Next ==
    \/ CallTest
    \/ CallTestValue
    \/ CallPyTestFunction
    \/ CallPyTestBoolFunction

Spec == Init /\ [][Next]_vars

----------------------------------------------------------------------------
\* Properties.  call is the most recent call, ret what its caller got, and
\* old the recorder and the debug sink as they were when it was made.

\* What func did on args in the most recent call
FuncResult == Call(call.func, call.args)

\* What expected == value did in the most recent call of test
Comparison == PyEq(call.expected, FuncResult.value)

FuncReturned == FuncResult.kind = "return"

FuncRaised == FuncResult.kind = "raise"

\* The most recent call made exactly one call to the recorder, this one.
Recorded(method, args) ==
    recorder = Append(old.recorder, RecorderCall(method, call.desc, args))

SinkUnchanged == debug_sink = old.debug_sink

SinkWritten(msg) == debug_sink = Append(old.debug_sink, msg)

\* C1: test returns normally to its caller whether func returns or raises,
\* whatever the error func raises.
C1_TestNeverPropagates ==
    (call.op = "test" /\ (FuncRaised \/ Comparison.kind = "return"))
        => ret = Return(PyNone)

C3_RaiseRecordsNotShouldPass ==
    (call.op = "test" /\ FuncRaised)
        => Recorded("test_bool", <<PyBool(~call.should_pass)>>)

\* C4: after any sequence of calls of test and test_value the recorder holds
\* one outcome per call, in the order of the calls, each under the description
\* its call was given.
C4_OneOutcomePerCall ==
    /\ Len(recorder) = Len(descs)
    /\ \A i \in 1..Len(recorder) :
        /\ recorder[i].desc = descs[i]
        /\ recorder[i].method \in {"test_bool", "test_float"}

\* C5: test_value calls test_float(desc, v1, v2, tol), with tol 0.0001 when
\* the caller gives none, exactly when both values are floats, and otherwise
\* calls test_bool(desc, v1 == v2), whatever tol is.
C5_TestValueDispatch ==
    call.op = "test_value" =>
        IF call.v1.type = "float" /\ call.v2.type = "float"
            THEN Recorded("test_float",
                          <<call.v1, call.v2,
                            IF call.tolArg = <<>> THEN PyFloat(Scale \div 10000)
                            ELSE call.tolArg[1]>>)
        ELSE Recorded("test_bool", <<PyEq(call.v1, call.v2).value>>)

C5_Witness ==
    /\ call.op = "test_value" /\ call.tolArg = <<>>
    /\ call.v1.type = "float" /\ call.v2.type = "float" /\ call.v1 # call.v2
    /\ old.recorder # <<>> /\ old.recorder[Len(old.recorder)].method = "test_bool"
    /\ recorder[Len(recorder)].method = "test_float"

\* C6: whenever func raises, py_test_function writes str(e) to the debug sink
\* and returns 0; stated for the errors of the Exception family, which are the
\* ones whose handler writes.
C6_RaiseWritesAndReturns0 ==
    (call.op = "py_test_function" /\ FuncRaised /\ IsException(FuncResult.exc))
        => /\ ret = Return(PyInt(0))
           /\ SinkWritten(PyStrOf(FuncResult.exc) \o "\n")

\* C7: whenever func returns normally, py_test_function returns 1, whatever
\* func returned, and writes nothing to the debug sink.
C7_ReturnGives1 ==
    (call.op = "py_test_function" /\ FuncReturned)
        => ret = Return(PyInt(1)) /\ SinkUnchanged

C7_Witness ==
    /\ call.op = "py_test_function" /\ FuncReturned
    /\ ~Truthy(FuncResult.value)
    /\ ret = Return(PyInt(1))

\* C8: py_test_bool_function returns the very value func returned, and when
\* func raises an error of the Exception family it writes to the debug sink and
\* returns 0.
C8_ValueOrZero ==
    call.op = "py_test_bool_function" =>
        /\ FuncReturned => ret = Return(FuncResult.value)
        /\ (FuncRaised /\ IsException(FuncResult.exc))
            => /\ ret = Return(PyInt(0))
               /\ SinkWritten(PyStrOf(FuncResult.exc) \o "\n")

\* C9: when func returns normally and the comparison with expected raises,
\* test records not should_pass.
C9_ComparisonErrorRecordsNotShouldPass ==
    (call.op = "test" /\ FuncReturned /\ Comparison.kind = "raise")
        => Recorded("test_bool", <<PyBool(~call.should_pass)>>)

\* C10: an error raised by func outside the Exception family makes
\* py_test_function and py_test_bool_function return 0 and leaves the debug
\* sink as it was.
C10_BareExceptReturns0Silently ==
    (/\ call.op \in {"py_test_function", "py_test_bool_function"}
     /\ FuncRaised /\ ~IsException(FuncResult.exc))
        => ret = Return(PyInt(0)) /\ SinkUnchanged

C10_Witness ==
    /\ call.op = "py_test_bool_function"
    /\ FuncRaised /\ FuncResult.exc.cls = "SystemExit"
    /\ ret = Return(PyInt(0))

====
